---- MODULE Spec2Model ----
(***************************************************************************)
(* Model of extract-email-parts.py: one invocation of the script is a run  *)
(* of the steps                                                            *)
(*   start -> read -> classify -> save_html -> save_text -> finish -> done *)
(* with the early exits "exited" (usage error, sys.exit(1)) and "error"    *)
(* (an exception that nothing catches).  The two output files live in the  *)
(* working directory and survive from one invocation to the next: Spec is  *)
(* one invocation in a directory that may hold files of earlier ones,      *)
(* SpecRuns is a sequence of invocations in the same directory.            *)
(*                                                                         *)
(* A parsed message is a tree of parts.  Part 1 is the message itself,     *)
(* parent[i] < i is the part that contains part i, and the children of a   *)
(* part are ordered by their index (their order in the file).  payload[i]  *)
(* is the decoded body the MIME library hands out for part i: a sequence   *)
(* of code points for a text/* part, a sequence of byte values otherwise.  *)
(* The header values printed at lines 21-23 are not modelled, only the     *)
(* fact that the lines are printed.                                        *)
(***************************************************************************)
EXTENDS Integers, Sequences, FiniteSets, TLC

VARIABLES pc, hasArg, msg, html_content, text_content,
          htmlFile, txtFile, out, exitCode, fault,
          writes, htmlBefore, txtBefore, lastHtml, lastTxt

vars == <<pc, hasArg, msg, html_content, text_content,
          htmlFile, txtFile, out, exitCode, fault,
          writes, htmlBefore, txtBefore, lastHtml, lastTxt>>

\* ---------------------------------------------------------------- bounds
MaxParts == 4
MaxBodyLen == 1

\* code points that bodies are made of: 'a' (one byte in UTF-8) and
\* U+00E9 (two bytes in UTF-8)
Chars == {97, 233}

\* ------------------------------------------------------------ data model
HtmlType == "text/html"
PlainType == "text/plain"
ContainerType == "multipart/mixed"
LeafTypes == {HtmlType, PlainType, "image/png"}
SingleTypes == LeafTypes \cup {"application/octet-stream"}

Payloads == UNION {[1..k -> Chars] : k \in 0..MaxBodyLen}

\* Python's None, and the two kinds of value get_content() returns
None == [kind |-> "none", data |-> <<>>]
Str(s) == [kind |-> "str", data |-> s]
Bytes(b) == [kind |-> "bytes", data |-> b]

\* a file of the working directory
Absent == [exists |-> FALSE, data |-> <<>>]
File(b) == [exists |-> TRUE, data |-> b]

\* what an output file left by an earlier invocation holds ("old")
OldBytes == <<111, 108, 100>>

NoMsg == [n |-> 0, parent |-> <<>>, ctype |-> <<>>, payload |-> <<>>]

Kids(m, i) == {j \in 1..m.n : m.parent[j] = i}

\* part.is_multipart(): the payload is a list of sub-parts
is_multipart(m, i) == Kids(m, i) # {}

Shapes(n) == {p \in [1..n -> 0..(n-1)] : \A i \in 1..n : IF i = 1 THEN p[i] = 0 ELSE p[i] >= 1 /\ p[i] < i}

HasKid(p, n, i) == \E j \in 1..n : p[j] = i

\* what part i of a tree of shape p can be.  A message without sub-parts is
\* a single part of any type with any body.  In a multipart message a part
\* is a container, a text part with any body, or an attachment; a container
\* has no body of its own, and the body of an attachment inside a multipart
\* message is never read by the script and is fixed.
AttachmentBody == <<97>>

PartChoices(p, n, i) == IF n = 1 THEN SingleTypes \X Payloads ELSE IF HasKid(p, n, i) THEN {<<ContainerType, <<>>>>} ELSE ({HtmlType, PlainType} \X Payloads) \cup {<<"image/png", AttachmentBody>>}

RECURSIVE PartSeqs(_, _, _)
PartSeqs(p, n, i) == IF i = 0 THEN {[ctype |-> <<>>, payload |-> <<>>]} ELSE {[ctype |-> Append(r.ctype, x[1]), payload |-> Append(r.payload, x[2])] : r \in PartSeqs(p, n, i - 1), x \in PartChoices(p, n, i)}

\* the messages with n parts arranged in the tree p
Messages(n, p) == {[n |-> n, parent |-> p, ctype |-> r.ctype, payload |-> r.payload] : r \in PartSeqs(p, n, n)}

\* ------------------------------------------------------- library helpers
MainType(ct) == IF ct \in {HtmlType, PlainType} THEN "text" ELSE "other"

get_content_type(m, i) == m.ctype[i]

\* part.get_content() under policy.default: text/* gives a str, every
\* other leaf type gives bytes
get_content(m, i) == IF MainType(m.ctype[i]) = "text" THEN Str(m.payload[i]) ELSE Bytes(m.payload[i])

Min(S) == CHOOSE x \in S : \A y \in S : x <= y

RECURSIVE WalkFrom(_, _)
RECURSIVE WalkKids(_, _)
\* msg.walk(): the part itself, then the walk of each sub-part in order
WalkFrom(m, i) == <<i>> \o WalkKids(m, Kids(m, i))

WalkKids(m, S) == IF S = {} THEN <<>> ELSE LET k == Min(S) IN WalkFrom(m, k) \o WalkKids(m, S \ {k})

walk(m) == WalkFrom(m, 1)

\* truth value of "if x:" for None, a str or bytes
Truthy(v) == v.kind # "none" /\ Len(v.data) > 0

\* the bytes a text-mode file opened with encoding='utf-8' stores for one
\* code point
EncodeChar(cp) == IF cp < 128 THEN <<cp>> ELSE IF cp < 2048 THEN <<192 + (cp \div 64), 128 + (cp % 64)>> ELSE IF cp < 65536 THEN <<224 + (cp \div 4096), 128 + ((cp \div 64) % 64), 128 + (cp % 64)>> ELSE <<240 + (cp \div 262144), 128 + ((cp \div 4096) % 64), 128 + ((cp \div 64) % 64), 128 + (cp % 64)>>

RECURSIVE EncodeUTF8(_)
EncodeUTF8(s) == IF s = <<>> THEN <<>> ELSE EncodeChar(Head(s)) \o EncodeUTF8(Tail(s))

Line(tag, n) == <<tag, n>>

\* ------------------------------------------------------------ the script
\* body of the "for part in msg.walk()" loop, lines 32-37
ClassifyPartFirstWins(m, i, acc) == IF get_content_type(m, i) = HtmlType THEN (IF acc.html = None THEN [acc EXCEPT !.html = get_content(m, i)] ELSE acc) ELSE IF get_content_type(m, i) = PlainType THEN (IF acc.text = None THEN [acc EXCEPT !.text = get_content(m, i)] ELSE acc) ELSE acc

ClassifyPartElseText(m, i, acc) == IF get_content_type(m, i) = HtmlType THEN [acc EXCEPT !.html = get_content(m, i)] ELSE [acc EXCEPT !.text = Bytes(m.payload[i])]

ClassifyPart(m, i, acc) == IF get_content_type(m, i) = HtmlType THEN [acc EXCEPT !.html = get_content(m, i)] ELSE IF get_content_type(m, i) = PlainType THEN [acc EXCEPT !.text = get_content(m, i)] ELSE acc

RECURSIVE WalkLoop(_, _, _)
WalkLoop(m, order, acc) == IF order = <<>> THEN acc ELSE WalkLoop(m, Tail(order), ClassifyPart(m, Head(order), acc))

\* lines 39-44
SinglePart(m) == IF get_content_type(m, 1) = HtmlType THEN [html |-> get_content(m, 1), text |-> None] ELSE [html |-> None, text |-> get_content(m, 1)]

\* lines 27-44
Extract(m) == IF is_multipart(m, 1) THEN WalkLoop(m, walk(m), [html |-> None, text |-> None]) ELSE SinglePart(m)

Init ==
    /\ pc = "start"
    /\ hasArg \in BOOLEAN
    /\ msg = NoMsg
    /\ html_content = None
    /\ text_content = None
    /\ htmlFile \in {Absent, File(OldBytes)}
    /\ txtFile \in {Absent, File(OldBytes)}
    /\ out = <<>>
    /\ exitCode = -1
    /\ fault = "none"
    /\ writes = <<>>
    /\ htmlBefore = htmlFile
    /\ txtBefore = txtFile
    /\ lastHtml = None
    /\ lastTxt = None

\* lines 11-15
CheckArgsNoExit ==
    /\ pc = "start"
    /\ pc' = "read"
    /\ out' = IF hasArg THEN out ELSE Append(out, Line("Usage", 0))
    /\ UNCHANGED <<hasArg, msg, html_content, text_content, htmlFile, txtFile, exitCode, fault, writes, htmlBefore, txtBefore, lastHtml, lastTxt>>

CheckArgs ==
    /\ pc = "start"
    /\ IF ~hasArg
       THEN /\ out' = Append(out, Line("Usage", 0))
            /\ exitCode' = 1
            /\ pc' = "exited"
       ELSE /\ pc' = "read"
            /\ UNCHANGED <<out, exitCode>>
    /\ UNCHANGED <<hasArg, msg, html_content, text_content, htmlFile, txtFile, fault, writes, htmlBefore, txtBefore, lastHtml, lastTxt>>

\* lines 17-24: open and parse the input, print the header summary
ReadEmailOutputsFirst ==
    /\ pc = "read"
    /\ htmlFile' = File(<<>>)
    /\ writes' = Append(writes, "html")
    /\ \E readable \in BOOLEAN :
         IF readable
         THEN /\ \E n \in 1..MaxParts : \E p \in Shapes(n) : \E m \in Messages(n, p) : msg' = m
              /\ out' = out \o <<Line("Email", 0), Line("From", 0), Line("Content-Type", 0)>>
              /\ pc' = "classify"
              /\ UNCHANGED <<exitCode, fault>>
         ELSE /\ fault' = "OSError"
              /\ exitCode' = 1
              /\ pc' = "error"
              /\ UNCHANGED <<msg, out>>
    /\ UNCHANGED <<hasArg, html_content, text_content, txtFile, htmlBefore, txtBefore, lastHtml, lastTxt>>

ReadEmail ==
    /\ pc = "read"
    /\ \E readable \in BOOLEAN :
         IF readable
         THEN /\ \E n \in 1..MaxParts : \E p \in Shapes(n) : \E m \in Messages(n, p) : msg' = m
              /\ out' = out \o <<Line("Email", 0), Line("From", 0), Line("Content-Type", 0)>>
              /\ pc' = "classify"
              /\ UNCHANGED <<exitCode, fault>>
         ELSE /\ fault' = "OSError"
              /\ exitCode' = 1
              /\ pc' = "error"
              /\ UNCHANGED <<msg, out>>
    /\ UNCHANGED <<hasArg, html_content, text_content, htmlFile, txtFile, writes, htmlBefore, txtBefore, lastHtml, lastTxt>>

\* lines 26-44
Classify ==
    /\ pc = "classify"
    /\ html_content' = Extract(msg).html
    /\ text_content' = Extract(msg).text
    /\ pc' = "save_html"
    /\ UNCHANGED <<hasArg, msg, htmlFile, txtFile, out, exitCode, fault, writes, htmlBefore, txtBefore, lastHtml, lastTxt>>

\* lines 47-53; html_content is None or the str of a text/html part
SaveHtml ==
    /\ pc = "save_html"
    /\ IF Truthy(html_content)
       THEN /\ writes' = Append(writes, "html")
            /\ htmlFile' = File(EncodeUTF8(html_content.data))
            /\ lastHtml' = html_content
            /\ out' = out \o <<Line("Saved HTML", 0), Line("Size", Len(html_content.data))>>
            /\ pc' = "save_text"
            /\ UNCHANGED <<exitCode, fault>>
       ELSE /\ out' = Append(out, Line("No HTML part found", 0))
            /\ pc' = "save_text"
            /\ UNCHANGED <<htmlFile, writes, lastHtml, exitCode, fault>>
    /\ UNCHANGED <<hasArg, msg, html_content, text_content, txtFile, htmlBefore, txtBefore, lastTxt>>

\* lines 55-61; open(..., 'w') truncates the file, and f.write() of a bytes
\* value then raises TypeError
SaveText ==
    /\ pc = "save_text"
    /\ IF Truthy(text_content)
       THEN /\ writes' = Append(writes, "txt")
            /\ IF text_content.kind = "str"
               THEN /\ txtFile' = File(EncodeUTF8(text_content.data))
                    /\ lastTxt' = text_content
                    /\ out' = out \o <<Line("Saved text", 0), Line("Size", Len(text_content.data))>>
                    /\ pc' = "finish"
                    /\ UNCHANGED <<exitCode, fault>>
               ELSE /\ txtFile' = File(<<>>)
                    /\ fault' = "TypeError"
                    /\ exitCode' = 1
                    /\ pc' = "error"
                    /\ UNCHANGED <<out, lastTxt>>
       ELSE /\ out' = Append(out, Line("No text part found", 0))
            /\ pc' = "finish"
            /\ UNCHANGED <<txtFile, writes, lastTxt, exitCode, fault>>
    /\ UNCHANGED <<hasArg, msg, html_content, text_content, htmlFile, htmlBefore, txtBefore, lastHtml>>

\* lines 63-65, then the interpreter exits with status 0
Finish ==
    /\ pc = "finish"
    /\ out' = Append(out, Line("Next step", 0))
    /\ exitCode' = 0
    /\ pc' = "done"
    /\ UNCHANGED <<hasArg, msg, html_content, text_content, htmlFile, txtFile, fault, writes, htmlBefore, txtBefore, lastHtml, lastTxt>>

Ended == pc \in {"done", "exited", "error"}

\* the script is started again in the same working directory
NewRun ==
    /\ Ended
    /\ pc' = "start"
    /\ hasArg' \in BOOLEAN
    /\ msg' = NoMsg
    /\ html_content' = None
    /\ text_content' = None
    /\ out' = <<>>
    /\ exitCode' = -1
    /\ fault' = "none"
    /\ writes' = <<>>
    /\ htmlBefore' = htmlFile
    /\ txtBefore' = txtFile
    /\ UNCHANGED <<htmlFile, txtFile, lastHtml, lastTxt>>

Next == CheckArgs \/ ReadEmail \/ Classify \/ SaveHtml \/ SaveText \/ Finish

Spec == Init /\ [][Next]_vars

NextRuns == Next \/ NewRun

SpecRuns == Init /\ [][NextRuns]_vars

\* ------------------------------------------- vocabulary of the properties
Classified == msg # NoMsg /\ pc # "classify"

AfterSaveHtml == Classified /\ pc # "save_html"

AfterSaveText == pc \in {"finish", "done"} \/ (pc = "error" /\ fault = "TypeError")

Wrote(f) == \E k \in 1..Len(writes) : writes[k] = f

Printed(tag) == \E k \in 1..Len(out) : out[k][1] = tag

Multipart == msg # NoMsg /\ is_multipart(msg, 1)

Single == msg # NoMsg /\ ~is_multipart(msg, 1)

IsType(m, ct, i) == m.ctype[i] = ct

\* the parts of type ct, in traversal order
PartsOf(m, ct) == SelectSeq(walk(m), LAMBDA i : IsType(m, ct, i))

\* the tree of m has a part of type ct
Has(m, ct) == \E i \in 1..m.n : m.ctype[i] = ct

First(parts) == parts[1]

Last(parts) == parts[Len(parts)]

\* the bytes a body occupies in a file
BodyBytes(v) == IF v.kind = "str" THEN EncodeUTF8(v.data) ELSE v.data

\* a part of the kind was visited and classified
FoundHtml == IF is_multipart(msg, 1) THEN Has(msg, HtmlType) ELSE msg.ctype[1] = HtmlType

FoundText == IF is_multipart(msg, 1) THEN Has(msg, PlainType) ELSE msg.ctype[1] # HtmlType

\* ---------------------------------------------------------------- claims

C2_BothFilesWritten == (Ended /\ Multipart /\ Len(PartsOf(msg, HtmlType)) = 1 /\ Len(PartsOf(msg, PlainType)) = 1) => /\ pc = "done"
                                                                                                                                     /\ Wrote("html") /\ htmlFile = File(BodyBytes(get_content(msg, First(PartsOf(msg, HtmlType)))))
                                                                                                                                     /\ Wrote("txt") /\ txtFile = File(BodyBytes(get_content(msg, First(PartsOf(msg, PlainType)))))

\* C3: a run on a single-part message whose type is not text/html ends
\* normally with the body written to extracted-email.txt, whatever the type
\* and whether the body is text or bytes, and does not write the HTML file.
C3_SingleNonHtmlToText == (Ended /\ Single /\ msg.ctype[1] # HtmlType) => /\ pc = "done"
                                                                         /\ Wrote("txt") /\ txtFile = File(BodyBytes(get_content(msg, 1)))
                                                                         /\ ~Wrote("html") /\ htmlFile = htmlBefore

\* C4: a run that parsed its input ends normally, and writes each output
\* file exactly when a part of that kind was classified; a kind that was not
\* found gets its diagnostic.
C4_WrittenIffFound == (Ended /\ msg # NoMsg) => /\ pc = "done"
                                               /\ (Wrote("html") <=> FoundHtml)
                                               /\ (Wrote("txt") <=> FoundText)
                                               /\ (Printed("No HTML part found") <=> ~FoundHtml)
                                               /\ (Printed("No text part found") <=> ~FoundText)

\* C5: a run on a single-part text/html message writes the body to
\* extracted-email.html, leaves extracted-email.txt as it was and prints
\* the "No text part found" diagnostic.
C5_SingleHtmlOnly == (Ended /\ Single /\ msg.ctype[1] = HtmlType) => /\ pc = "done"
                                                                    /\ Wrote("html") /\ htmlFile = File(BodyBytes(get_content(msg, 1)))
                                                                    /\ ~Wrote("txt") /\ txtFile = txtBefore
                                                                    /\ Printed("No text part found")

\* C6: in a multipart message only text/html parts are retained as HTML and
\* only text/plain parts as text; when the tree has neither, nothing is
\* retained and the run ends with status 0, both diagnostics printed and
\* both files as they were before the run.
C6_NoTextualParts == /\ (Classified /\ Multipart) => /\ html_content # None => \E i \in 1..msg.n : msg.ctype[i] = HtmlType /\ html_content = Str(msg.payload[i])
                                                     /\ text_content # None => \E i \in 1..msg.n : msg.ctype[i] = PlainType /\ text_content = Str(msg.payload[i])
                     /\ (Classified /\ Multipart /\ ~Has(msg, HtmlType) /\ ~Has(msg, PlainType)) => /\ html_content = None /\ text_content = None
                                                                                                    /\ pc # "error"
                                                                                                    /\ writes = <<>> /\ htmlFile = htmlBefore /\ txtFile = txtBefore
                                                                                                    /\ AfterSaveHtml => Printed("No HTML part found")
                                                                                                    /\ AfterSaveText => Printed("No text part found")
                                                                                                    /\ Ended => (pc = "done" /\ exitCode = 0)

\* a finished run on containers and images only, with both files present
\* from an earlier run
C6_Witness == /\ pc = "done" /\ Multipart
              /\ ~Has(msg, HtmlType) /\ ~Has(msg, PlainType)
              /\ \E i \in 2..msg.n : is_multipart(msg, i)
              /\ \E i \in 2..msg.n : msg.ctype[i] = "image/png" /\ msg.payload[i] # <<>>
              /\ htmlFile.exists /\ txtFile.exists

\* C7: an invocation without a path argument prints the usage line and
\* exits with status 1 at once: no input is read and neither output file is
\* written or changed.
C7_UsageExit == (~hasArg /\ pc # "start") => /\ pc = "exited" /\ exitCode = 1
                                             /\ out = <<Line("Usage", 0)>>
                                             /\ msg = NoMsg /\ fault = "none"
                                             /\ writes = <<>> /\ htmlFile = htmlBefore /\ txtFile = txtBefore

\* an invocation without argument that has exited, both files present from
\* an earlier run
C7_Witness == ~hasArg /\ pc = "exited" /\ htmlFile.exists /\ txtFile.exists

\* C8: no output file is opened for writing before the input has been read
\* and parsed; a run that fails reading its input ends with the error and
\* both output files as they were before the run.
C8_ReadBeforeWrite == /\ msg = NoMsg => (writes = <<>> /\ htmlFile = htmlBefore /\ txtFile = txtBefore)
                      /\ fault = "OSError" => (pc = "error" /\ exitCode = 1 /\ msg = NoMsg)

\* a run that failed opening its input, both files present from an earlier
\* run
C8_Witness == pc = "error" /\ fault = "OSError" /\ htmlFile.exists /\ txtFile.exists

\* C9: the size printed after each success line is the number of bytes of
\* the file just written.
C9_SizeIsByteLength == \A k \in 1..(Len(out) - 1) : /\ out[k][1] = "Saved HTML" => out[k + 1] = Line("Size", Len(htmlFile.data))
                                                    /\ out[k][1] = "Saved text" => out[k + 1] = Line("Size", Len(txtFile.data))

\* C10: in a sequence of runs, when a run has ended, a file whose kind the
\* run did not retain is as it was before the run, and each file that some
\* run wrote holds the body written by the most recent run that wrote that
\* kind.
C10_FilesFromLatestWriter == Ended => /\ html_content = None => htmlFile = htmlBefore
                                      /\ text_content = None => txtFile = txtBefore
                                      /\ lastHtml # None => htmlFile = File(EncodeUTF8(lastHtml.data))
                                      /\ lastTxt # None => txtFile = File(EncodeUTF8(lastTxt.data))

====
